---- MODULE Spec2Model ----
(***************************************************************************)
(* Model of the realtime channel of supabase-go (src/realtime.go): one     *)
(* Channel value shared by the caller's thread, the keepAlive goroutine    *)
(* and the handleCallbacks goroutines that open() launches.                *)
(*                                                                         *)
(* Sockets are numbered in dial order; 0 is the nil *websocket.Conn.       *)
(* closeChan and reconnectChan are unbuffered, so a send and its receive   *)
(* are one joint step of the sender and of keepAlive's select.             *)
(* A callback is identified by the number of the On() call that            *)
(* registered it; 0 is the nil func of a zeroed Listener.                  *)
(*                                                                         *)
(* The program's steps are the same in every specification below.  What    *)
(* differs is which observer is switched on (variable obs): an observer    *)
(* records, next to the program's state, the part of its history that a    *)
(* group of properties talks about.                                        *)
(***************************************************************************)
EXTENDS Integers, Sequences, FiniteSets, TLC

\* ---------------------------------------------------------------- bounds
\* The properties of the connection do not read the listener list and the
\* properties of dispatch need one connection only, so each group of
\* observers bounds the part it does not look at more tightly.  Observers
\* "race" and "live" bound the number of calls the caller's thread makes
\* instead: "race" to afford a third dial, "live" to afford the search for
\* cycles.
MaxSockets == 2        \* successful websocket.Dial calls, connection observers
MaxConnListeners == 1  \* On() calls, connection observers
MaxPassSockets == 1    \* successful websocket.Dial calls, observer "pass"
MaxListeners == 2      \* On() calls, observer "pass"
MaxRaceSockets == 3    \* successful websocket.Dial calls, observer "race"
MaxRaceCalls == 2      \* calls the caller's thread makes, observer "race"
MaxLiveCalls == 3      \* calls the caller's thread makes, observer "live"

\* ------------------------------------------------------- program constants
phxReply == "phx_reply"
Wildcard == "*"

EventNames == {"INSERT", Wildcard, phxReply}      \* arguments of On / Remove
FrameEvents == {"INSERT", "UPDATE", phxReply}     \* event of a decodable frame
Undecodable == "<garbage>"                        \* bytes json.Unmarshal rejects

MaxOf(a, b) == IF a > b THEN a ELSE b
Sockets == 1..MaxOf(MaxOf(MaxSockets, MaxPassSockets), MaxRaceSockets)
Dispatchers == Sockets     \* every goroutine is launched by an open() that dialed
Openers == {"caller", "ka"}

VARIABLES
  ws,            \* c.ws: 0 = nil, else the socket the handle points to
  Connected,     \* c.Connected
  listeners,     \* c.listeners as a slice value: its first len elements
  backing,       \* the array c.listeners points into, Len = cap
  nSock,         \* sockets dialed so far
  sock,          \* per socket: "none" (not dialed), "open", "down" (connection broken,
                 \* I/O on it fails) or "closed" (Close() was called on it)
  pc,            \* position of the caller's thread and of keepAlive
  op,            \* who is running open(): Listen/Send for caller, tick/reconnect for ka
  nDisp,         \* handleCallbacks goroutines launched so far
  dpc,           \* position of each handleCallbacks goroutine
  rd,            \* socket a goroutine's pending Read was issued on
  fr,            \* event of the frame a goroutine is dispatching or last dropped
  dArr, dN, dI,  \* range loop of a goroutine: array iterated, length, next index
  dLive,         \* dArr is still the array c.listeners points into
  nReg,          \* On() calls so far
  obs,           \* the observer switched on
  nCalls,        \* "race", "live": calls the caller's thread has made so far
  inv,           \* "pass": callbacks the goroutine invoked for its frame, in order
  snap,          \* "pass": c.listeners when the range statement was evaluated
  gone,          \* "pass": callbacks removed before that moment
  mut,           \* "pass": RemoveCallbacksForEvent ran during the range loop
  earlier,       \* "pass": goroutines still dispatching a frame read before this one
  got,           \* "pass": what json.Unmarshal made of the last frame read
  removed,       \* "pass": callbacks deleted by RemoveCallbacksForEvent
  rmArg,         \* "pass": argument of the RemoveCallbacksForEvent call the last step made
  snd,           \* "send": record of the Send call in progress or just returned
  fired,         \* "life": lifecycle callback invoked by the last step
  opened,        \* "life": the open() call the last step returned from: caller, result
  closeDone,     \* "life", "live": keepAlive handled a close signal, no Listen/Send since
  listenRet,     \* "life": what Listen returned, if the last step was its return
  dropped,       \* "life": goroutine that dropped an undecodable frame in the last step
  discFor,       \* "disc": OnDisconnect invocations per socket whose failure caused them
  hbSock,        \* "disc": socket keepAlive's failed heartbeat write went to
  hbPrev, hbLast \* "hb": the two latest consecutive iterations of keepAlive

svars == <<ws, Connected, nSock, sock>>
lvars == <<listeners, backing, nReg>>
dvars == <<nDisp, dpc, rd, fr, dArr, dN, dI, dLive>>
pvars == <<inv, snap, gone, mut, earlier, got, removed>>
evars == <<fired, opened, rmArg, closeDone, listenRet, dropped>>
hvars == <<pvars, snd, evars, discFor, hbSock, hbPrev, hbLast>>
vars == <<svars, lvars, pc, op, dvars, obs, nCalls, hvars>>

\* ------------------------------------------------------------ data helpers
Listener(e, cb) == [EventName |-> e, callback |-> cb]
ZeroListener == Listener("", 0)
NoSend == [conn |-> FALSE, opened |-> FALSE, openRes |-> "-", log |-> <<>>, ret |-> "none"]
NoOpen == [by |-> "-", res |-> "-"]
Write(frame, ok) == [f |-> frame, ok |-> ok]
NoIter == [fail |-> FALSE, conn |-> FALSE, disc |-> FALSE]

Zeros(n) == [i \in 1..n |-> ZeroListener]
Ids(s) == {s[i].callback : i \in 1..Len(s)}
Bump(f, s) == [f EXCEPT ![s] = IF @ < 2 THEN @ + 1 ELSE 2]
Usable(s) == s # 0 /\ sock[s] = "open"
CloseSock(s) == IF s = 0 THEN sock ELSE [sock EXCEPT ![s] = "closed"]

\* value recorded by observer o: new while o is switched on, else unchanged
Rec(o, new, old) == IF obs = o THEN new ELSE old
\* the same for what both "pass" and "order" record
RecP(new, old) == IF obs \in {"pass", "order"} THEN new ELSE old

SocketLimit == IF obs = "pass" THEN MaxPassSockets
               ELSE IF obs = "race" THEN MaxRaceSockets ELSE MaxSockets
ListenerLimit == IF obs = "pass" THEN MaxListeners ELSE MaxConnListeners

\* the caller's thread enters one more method of the channel
Call == /\ obs = "race" => nCalls < MaxRaceCalls
        /\ obs = "live" => nCalls < MaxLiveCalls
        /\ nCalls' = (IF obs \in {"race", "live"} THEN nCalls + 1 ELSE nCalls)

Observers == {"life", "send", "disc", "hb", "pass", "order", "race", "live"}

InitWith(o) ==
  /\ obs = o /\ nCalls = 0
  /\ ws = 0 /\ Connected = FALSE
  /\ listeners = <<>> /\ backing = <<>>
  /\ nSock = 0 /\ sock = [s \in Sockets |-> "none"]
  /\ pc = [caller |-> "idle", ka |-> "none"]
  /\ op = [caller |-> "-", ka |-> "-"]
  /\ nDisp = 0
  /\ dpc = [d \in Dispatchers |-> "none"]
  /\ rd = [d \in Dispatchers |-> 0]
  /\ fr = [d \in Dispatchers |-> ""]
  /\ dArr = [d \in Dispatchers |-> <<>>]
  /\ dN = [d \in Dispatchers |-> 0]
  /\ dI = [d \in Dispatchers |-> 0]
  /\ dLive = [d \in Dispatchers |-> FALSE]
  /\ inv = [d \in Dispatchers |-> <<>>]
  /\ snap = [d \in Dispatchers |-> <<>>]
  /\ gone = [d \in Dispatchers |-> {}]
  /\ mut = [d \in Dispatchers |-> FALSE]
  /\ earlier = [d \in Dispatchers |-> {}]
  /\ got = [d \in Dispatchers |-> "-"]
  /\ nReg = 0 /\ removed = {}
  /\ snd = NoSend
  /\ fired = "none" /\ opened = NoOpen /\ rmArg = "-"
  /\ closeDone = FALSE
  /\ listenRet = "-" /\ dropped = 0
  /\ discFor = [s \in Sockets |-> 0]
  /\ hbSock = 0
  /\ hbPrev = NoIter /\ hbLast = NoIter

Init == InitWith("life")

\* what every step that is not singled out below does to the observers
Still == listenRet' = "-" /\ dropped' = 0
Quiet == fired' = "none" /\ opened' = NoOpen /\ rmArg' = "-" /\ Still

\* ------------------------------------------------------------------ open()
\* One iteration of keepAlive's for loop has ended: shift the iteration log.
KaIter(rec) == hbPrev' = Rec("hb", hbLast, hbPrev) /\ hbLast' = Rec("hb", rec, hbLast)

\* keepAlive, lines 204-209: open() failed after a failed heartbeat write and
\* the channel is still marked connected.
Downgrade(t, err) == t = "ka" /\ op[t] = "tick" /\ err /\ Connected

\* a Listen that launches keepAlive whatever open() returned
ListenAlwaysStarts(err) == [ret |-> IF err THEN "err" ELSE "nil", go |-> TRUE]

\* Listen, lines 86-90: the value it returns, and whether it runs line 89
Listen_return(err) == [ret |-> IF err THEN "err" ELSE "nil", go |-> ~err]

\* open() returns to the code that called it (Listen, Send or keepAlive).
OpenReturn(t, err, sn) ==
  /\ Connected' = (IF Downgrade(t, err) THEN FALSE ELSE Connected)
  /\ discFor' = Rec("disc", IF Downgrade(t, err) THEN Bump(discFor, hbSock) ELSE discFor,
                    discFor)
  /\ fired' = Rec("life", IF Downgrade(t, err) THEN "OnDisconnect"
                          ELSE IF err THEN "none" ELSE "OnConnect", fired)
  /\ opened' = Rec("life", [by |-> op[t], res |-> IF err THEN "err" ELSE "ok"], opened)
  /\ rmArg' = "-" /\ dropped' = 0
  /\ listenRet' = Rec("life", IF t = "caller" /\ op[t] = "Listen"
                               THEN Listen_return(err).ret ELSE "-", listenRet)
  /\ op' = [op EXCEPT ![t] = IF t = "caller" /\ op[t] = "Send" /\ ~err THEN "Send" ELSE "-"]
  /\ IF t = "caller"
     THEN /\ UNCHANGED <<hbPrev, hbLast>>
          /\ IF op[t] = "Listen"
             THEN /\ pc' = [pc EXCEPT !["caller"] = "idle",
                                      !["ka"] = IF Listen_return(err).go
                                                THEN "select" ELSE @]
                  /\ snd' = sn
             ELSE /\ pc' = [pc EXCEPT !["caller"] = IF err THEN "send_ret" ELSE "send_write"]
                  /\ snd' = Rec("send", [sn EXCEPT !.openRes = IF err THEN "err" ELSE "ok",
                                                    !.ret = IF err THEN "openErr" ELSE @], snd)
     ELSE /\ pc' = [pc EXCEPT ![t] = "select"]
          /\ snd' = sn
          /\ KaIter(IF op[t] = "tick" /\ err
                    THEN [fail |-> TRUE, conn |-> Connected, disc |-> Connected]
                    ELSE NoIter)

\* lines 118-120: close the previous socket handle, if any
open_close(t) ==
  /\ pc[t] = "open_close"
  /\ sock' = CloseSock(ws)
  /\ pc' = [pc EXCEPT ![t] = "open_dial"]
  /\ Quiet
  /\ UNCHANGED <<ws, Connected, nSock, lvars, op, dvars, obs, nCalls, pvars, snd, closeDone,
                 discFor, hbSock, hbPrev, hbLast>>

\* lines 121-125: websocket.Dial; on success store the handle in c.ws
open_dial(t) ==
  /\ pc[t] = "open_dial"
  /\ \/ /\ nSock < SocketLimit
        /\ nSock' = nSock + 1
        /\ ws' = nSock + 1
        /\ sock' = [sock EXCEPT ![nSock + 1] = "open"]
        /\ pc' = [pc EXCEPT ![t] = "open_mark"]
        /\ Quiet
        /\ UNCHANGED <<Connected, op, snd, discFor, hbPrev, hbLast>>
     \/ /\ OpenReturn(t, TRUE, snd)
        /\ UNCHANGED <<ws, nSock, sock>>
  /\ UNCHANGED <<lvars, dvars, obs, nCalls, pvars, closeDone, hbSock>>

\* line 126: c.Connected = true
open_mark(t) ==
  /\ pc[t] = "open_mark"
  /\ Connected' = TRUE
  /\ pc' = [pc EXCEPT ![t] = "open_join"]
  /\ Quiet
  /\ UNCHANGED <<ws, nSock, sock, lvars, op, dvars, obs, nCalls, pvars, snd, closeDone, discFor,
                 hbSock, hbPrev, hbLast>>

\* lines 127-144: write the join frame to c.ws; on success launch
\* handleCallbacks, invoke OnConnect and return nil
open_join(t) ==
  /\ pc[t] = "open_join"
  /\ LET joinLog == IF t = "caller" /\ op[t] = "Send"
                    THEN Rec("send", [snd EXCEPT !.log = Append(@, Write("join", Usable(ws)))],
                             snd)
                    ELSE snd
     IN IF Usable(ws)
        THEN /\ nDisp' = nDisp + 1
             /\ dpc' = [dpc EXCEPT ![nDisp + 1] = "top"]
             /\ OpenReturn(t, FALSE, joinLog)
             /\ UNCHANGED <<rd, fr, dArr, dN, dI, dLive>>
        ELSE /\ OpenReturn(t, TRUE, joinLog)
             /\ UNCHANGED dvars
  /\ UNCHANGED <<ws, nSock, sock, lvars, obs, nCalls, pvars, closeDone, hbSock>>

open(t) == open_close(t) \/ open_dial(t) \/ open_mark(t) \/ open_join(t)

\* --------------------------------------------------- the caller's thread
\* Listen, line 85.  The caller calls Listen until it has succeeded once, so
\* there is at most one keepAlive goroutine.
Listen ==
  /\ pc["caller"] = "idle" /\ pc["ka"] = "none"
  /\ Call
  /\ pc' = [pc EXCEPT !["caller"] = "open_close"]
  /\ op' = [op EXCEPT !["caller"] = "Listen"]
  /\ closeDone' = FALSE
  /\ Quiet
  /\ UNCHANGED <<svars, lvars, dvars, obs, pvars, snd, discFor, hbSock, hbPrev, hbLast>>

\* a Send that reconnects without looking at c.Connected
SendAlwaysOpens(encodable) ==
  /\ pc["caller"] = "idle"
  /\ Call
  /\ closeDone' = FALSE
  /\ Quiet
  /\ IF ~encodable
     THEN /\ snd' = Rec("send", [NoSend EXCEPT !.conn = Connected, !.ret = "marshalErr"], snd)
          /\ pc' = [pc EXCEPT !["caller"] = "send_ret"]
          /\ op' = op
     ELSE /\ snd' = Rec("send", [NoSend EXCEPT !.conn = Connected, !.opened = TRUE], snd)
          /\ pc' = [pc EXCEPT !["caller"] = "open_close"]
          /\ op' = [op EXCEPT !["caller"] = "Send"]
  /\ UNCHANGED <<svars, lvars, dvars, obs, pvars, discFor, hbSock, hbPrev, hbLast>>

\* Send, lines 94-105: encode the message, then look at c.Connected
Send(encodable) ==
  /\ pc["caller"] = "idle"
  /\ Call
  /\ closeDone' = FALSE
  /\ Quiet
  /\ IF ~encodable
     THEN /\ snd' = Rec("send", [NoSend EXCEPT !.conn = Connected, !.ret = "marshalErr"], snd)
          /\ pc' = [pc EXCEPT !["caller"] = "send_ret"]
          /\ op' = op
     ELSE /\ snd' = Rec("send", [NoSend EXCEPT !.conn = Connected, !.opened = ~Connected], snd)
          /\ pc' = [pc EXCEPT !["caller"] = IF Connected THEN "send_write" ELSE "open_close"]
          /\ op' = [op EXCEPT !["caller"] = "Send"]
  /\ UNCHANGED <<svars, lvars, dvars, obs, pvars, discFor, hbSock, hbPrev, hbLast>>

\* Send, lines 106-110: write the application frame to c.ws
Send_write ==
  /\ pc["caller"] = "send_write"
  /\ snd' = Rec("send", [snd EXCEPT !.log = Append(@, Write("app", Usable(ws))),
                                    !.ret = IF Usable(ws) THEN "nil" ELSE "writeErr"], snd)
  /\ pc' = [pc EXCEPT !["caller"] = "send_ret"]
  /\ op' = [op EXCEPT !["caller"] = "-"]
  /\ Quiet
  /\ UNCHANGED <<svars, lvars, dvars, obs, nCalls, pvars, closeDone, discFor, hbSock, hbPrev, hbLast>>

\* Send has returned its error value to the caller
Send_return ==
  /\ pc["caller"] = "send_ret"
  /\ pc' = [pc EXCEPT !["caller"] = "idle"]
  /\ snd' = NoSend
  /\ Quiet
  /\ UNCHANGED <<svars, lvars, op, dvars, obs, nCalls, pvars, closeDone, discFor, hbSock, hbPrev, hbLast>>

\* Close, line 114: the send on closeChan blocks until keepAlive receives it
Close ==
  /\ pc["caller"] = "idle"
  /\ Call
  /\ pc' = [pc EXCEPT !["caller"] = "close_send"]
  /\ Quiet
  /\ UNCHANGED <<svars, lvars, op, dvars, obs, pvars, snd, closeDone, discFor, hbSock,
                 hbPrev, hbLast>>

\* append(c.listeners, l): in place while the array has room, else into a new
\* array of doubled capacity, which detaches every range loop in progress
Grow(l) ==
  IF Len(listeners) < Len(backing)
  THEN [backing EXCEPT ![Len(listeners) + 1] = l]
  ELSE listeners \o <<l>> \o
       Zeros((IF Len(backing) = 0 THEN 1 ELSE 2 * Len(backing)) - Len(listeners) - 1)

\* On, line 217
On(event) ==
  /\ pc["caller"] = "idle"
  /\ Call
  /\ nReg < ListenerLimit
  /\ LET l == Listener(event, nReg + 1)
         inPlace == Len(listeners) < Len(backing)
     IN /\ listeners' = Append(listeners, l)
        /\ backing' = Grow(l)
        /\ dLive' = [d \in Dispatchers |-> dLive[d] /\ inPlace]
        /\ dArr' = [d \in Dispatchers |-> IF dLive[d] /\ inPlace THEN Grow(l) ELSE dArr[d]]
  /\ nReg' = nReg + 1
  /\ Quiet
  /\ UNCHANGED <<svars, pc, op, nDisp, dpc, rd, fr, dN, dI, obs, pvars, snd, closeDone,
                 discFor, hbSock, hbPrev, hbLast>>

\* slices.DeleteFunc: index of the first element to delete, 0 if none
RECURSIVE IndexFunc(_, _, _)
IndexFunc(s, event, i) ==
  IF i > Len(s) THEN 0
  ELSE IF s[i].EventName = event THEN i
  ELSE IndexFunc(s, event, i + 1)

\* slices.DeleteFunc: move the kept elements down, then clear the tail
RECURSIVE Compact(_, _, _, _)
Compact(s, event, i, j) ==
  IF j > Len(s)
  THEN [arr |-> [k \in 1..Len(s) |-> IF k >= i THEN ZeroListener ELSE s[k]], n |-> i - 1]
  ELSE IF s[j].EventName # event
       THEN Compact([s EXCEPT ![i] = s[j]], event, i + 1, j + 1)
       ELSE Compact(s, event, i, j + 1)

\* a removal that stops after the first listener it deletes
DeleteFirst(s, event) ==
  LET i == IndexFunc(s, event, 1)
  IN IF i = 0 THEN [arr |-> s, n |-> Len(s)]
     ELSE [arr |-> [k \in 1..Len(s) |-> IF k < i THEN s[k]
                                         ELSE IF k < Len(s) THEN s[k + 1]
                                         ELSE ZeroListener],
           n |-> Len(s) - 1]

DeleteFunc(s, event) ==
  LET i == IndexFunc(s, event, 1)
  IN IF i = 0 THEN [arr |-> s, n |-> Len(s)] ELSE Compact(s, event, i, i + 1)

\* what slices.DeleteFunc leaves in the array behind the elements it kept:
\* zero values where the library clears the tail, the old elements where it
\* does not (both are released versions of golang.org/x/exp/slices)
TailOf(old, r, cleared) ==
  [k \in 1..Len(old) |-> IF k <= r.n \/ cleared THEN r.arr[k] ELSE old[k]]

\* RemoveCallbacksForEvent, lines 221-223
RemoveCallbacksForEvent(event) ==
  /\ pc["caller"] = "idle"
  /\ Call
  /\ \E cleared \in BOOLEAN :
     LET r == DeleteFunc(listeners, event)
         arr == TailOf(listeners, r, cleared) \o SubSeq(backing, Len(listeners) + 1, Len(backing))
     IN /\ listeners' = SubSeq(r.arr, 1, r.n)
        /\ backing' = arr
        /\ dArr' = [d \in Dispatchers |-> IF dLive[d] THEN arr ELSE dArr[d]]
        /\ removed' = Rec("pass", removed \cup (Ids(listeners) \ Ids(SubSeq(r.arr, 1, r.n))),
                          removed)
  /\ mut' = Rec("pass", [d \in Dispatchers |-> mut[d] \/ dpc[d] = "call"], mut)
  /\ rmArg' = Rec("pass", event, rmArg)
  /\ fired' = "none" /\ opened' = NoOpen /\ Still
  /\ UNCHANGED <<svars, nReg, pc, op, nDisp, dpc, rd, fr, dN, dI, dLive, obs, inv, snap, gone,
                 earlier, got, snd, closeDone, discFor, hbSock, hbPrev, hbLast>>

\* ------------------------------------------------------------- keepAlive
Waiting == pc["caller"] = "close_send" \/ \E d \in Dispatchers : dpc[d] = "signal"

\* a keepAlive that takes the close signal only while connected
keepAlive_closeIfConnected ==
  /\ pc["ka"] = "select" /\ pc["caller"] = "close_send" /\ Connected
  /\ Connected' = FALSE
  /\ pc' = [pc EXCEPT !["caller"] = "idle", !["ka"] = "close_ws"]
  /\ Quiet
  /\ UNCHANGED <<ws, nSock, sock, lvars, op, dvars, obs, nCalls, pvars, snd, closeDone, discFor,
                 hbSock, hbPrev, hbLast>>

\* lines 195-196: case <-c.closeChan, together with Close()'s send;
\* c.Connected = false
keepAlive_close ==
  /\ pc["ka"] = "select" /\ pc["caller"] = "close_send"
  /\ Connected' = FALSE
  /\ pc' = [pc EXCEPT !["caller"] = "idle", !["ka"] = "close_ws"]
  /\ Quiet
  /\ UNCHANGED <<ws, nSock, sock, lvars, op, dvars, obs, nCalls, pvars, snd, closeDone, discFor,
                 hbSock, hbPrev, hbLast>>

\* lines 197-198: c.ws.Close(); c.OnDisconnect(c)
keepAlive_closeWs ==
  /\ pc["ka"] = "close_ws"
  /\ sock' = CloseSock(ws)
  /\ fired' = Rec("life", "OnDisconnect", fired)
  /\ opened' = NoOpen /\ rmArg' = "-" /\ Still
  /\ closeDone' = (IF obs \in {"life", "live"} THEN TRUE ELSE closeDone)
  /\ pc' = [pc EXCEPT !["ka"] = "select"]
  /\ KaIter(NoIter)
  /\ UNCHANGED <<ws, Connected, nSock, lvars, op, dvars, obs, nCalls, pvars, snd, discFor, hbSock>>

\* lines 199-200: case <-c.reconnectChan, together with the send of line 163
keepAlive_reconnect(d) ==
  /\ pc["ka"] = "select" /\ dpc[d] = "signal"
  /\ dpc' = [dpc EXCEPT ![d] = "top"]
  /\ pc' = [pc EXCEPT !["ka"] = "open_close"]
  /\ op' = [op EXCEPT !["ka"] = "reconnect"]
  /\ Quiet
  /\ UNCHANGED <<svars, lvars, nDisp, rd, fr, dArr, dN, dI, dLive, obs, nCalls, pvars, snd, closeDone,
                 discFor, hbSock, hbPrev, hbLast>>

\* lines 201-204: case <-time.After(5s): write the heartbeat frame; a sender
\* already waiting on one of the channels is served before the timer expires
keepAlive_tick ==
  /\ pc["ka"] = "select" /\ ~Waiting
  /\ Quiet
  /\ IF Usable(ws)
     THEN /\ KaIter(NoIter)
          /\ UNCHANGED <<pc, op, hbSock>>
     ELSE /\ pc' = [pc EXCEPT !["ka"] = "open_close"]
          /\ op' = [op EXCEPT !["ka"] = "tick"]
          /\ hbSock' = Rec("disc", ws, hbSock)
          /\ UNCHANGED <<hbPrev, hbLast>>
  /\ UNCHANGED <<svars, lvars, dvars, obs, nCalls, pvars, snd, closeDone, discFor>>

keepAlive == keepAlive_close \/ keepAlive_closeWs \/ keepAlive_tick \/ \E d \in Dispatchers : keepAlive_reconnect(d)

\* ------------------------------------------------------- handleCallbacks
\* a decoder that accepts any bytes
UnmarshalAnything(raw) == [err |-> FALSE, Event |-> raw]

\* json.Unmarshal of the bytes read, line 168
Unmarshal(raw) == IF raw = Undecodable THEN [err |-> TRUE, Event |-> ""]
                  ELSE [err |-> FALSE, Event |-> raw]

\* a dispatch loop without the reply filter
IsReplyNever(message) == FALSE

\* line 171
IsReply(message) == message.Event = phxReply

\* a dispatch that forgets the wildcard
MatchesExact(l, event) == l.EventName = event

\* line 175
Matches(l, event) == l.EventName = event \/ l.EventName = Wildcard

\* lines 152-154
hc_top(d) ==
  /\ dpc[d] = "top"
  /\ dpc' = [dpc EXCEPT ![d] = IF Connected THEN "deadline" ELSE "done"]
  /\ Quiet
  /\ UNCHANGED <<svars, lvars, pc, op, nDisp, rd, fr, dArr, dN, dI, dLive, obs, nCalls, pvars, snd,
                 closeDone, discFor, hbSock, hbPrev, hbLast>>

\* lines 155-158: SetReadDeadline fails on a closed socket, then Read blocks
hc_deadline(d) ==
  /\ dpc[d] = "deadline"
  /\ IF sock[ws] = "closed"
     THEN dpc' = [dpc EXCEPT ![d] = "top"] /\ rd' = rd
     ELSE dpc' = [dpc EXCEPT ![d] = "read"] /\ rd' = [rd EXCEPT ![d] = ws]
  /\ Quiet
  /\ UNCHANGED <<svars, lvars, pc, op, nDisp, fr, dArr, dN, dI, dLive, obs, nCalls, pvars, snd,
                 closeDone, discFor, hbSock, hbPrev, hbLast>>

\* a read failure that leaves the channel marked connected
hc_readErrStaysConnected(d) ==
  /\ dpc[d] = "read"
  /\ dpc' = [dpc EXCEPT ![d] = "fail"]
  /\ Quiet
  /\ UNCHANGED <<svars, lvars, pc, op, nDisp, rd, fr, dArr, dN, dI, dLive, obs, nCalls,
                 pvars, snd, closeDone, discFor, hbSock, hbPrev, hbLast>>

\* lines 159-160: Read returns an error (socket closed or broken, or the 10 s
\* deadline passed); c.Connected = false
hc_readErr(d) ==
  /\ dpc[d] = "read"
  /\ Connected' = FALSE
  /\ dpc' = [dpc EXCEPT ![d] = "fail"]
  /\ Quiet
  /\ UNCHANGED <<ws, nSock, sock, lvars, pc, op, nDisp, rd, fr, dArr, dN, dI, dLive, obs, nCalls,
                 pvars, snd, closeDone, discFor, hbSock, hbPrev, hbLast>>

\* lines 161-163: c.ws.Close(); c.OnDisconnect(c); the send on reconnectChan
\* then blocks until keepAlive receives it
hc_fail(d) ==
  /\ dpc[d] = "fail"
  /\ sock' = CloseSock(ws)
  /\ fired' = Rec("life", "OnDisconnect", fired)
  /\ opened' = NoOpen /\ rmArg' = "-" /\ Still
  /\ discFor' = Rec("disc", Bump(discFor, rd[d]), discFor)
  /\ dpc' = [dpc EXCEPT ![d] = "signal"]
  /\ rd' = [rd EXCEPT ![d] = 0]
  /\ UNCHANGED <<ws, Connected, nSock, lvars, pc, op, nDisp, fr, dArr, dN, dI, dLive, obs, nCalls,
                 pvars, snd, closeDone, hbSock, hbPrev, hbLast>>

\* lines 159-174: Read returns a frame; decode it, drop it if it does not
\* decode or is a reply, else evaluate the range expression c.listeners
hc_read(d, raw) ==
  /\ dpc[d] = "read" /\ Usable(rd[d])
  /\ LET message == Unmarshal(raw)
         drop == message.err \/ IsReply(message)
     IN /\ fr' = [fr EXCEPT ![d] = IF drop THEN "" ELSE message.Event]
        /\ got' = Rec("pass", [got EXCEPT ![d] = IF message.err THEN "err" ELSE message.Event],
                      got)
        /\ dpc' = [dpc EXCEPT ![d] = IF drop THEN "top" ELSE "call"]
        /\ dArr' = [dArr EXCEPT ![d] = IF drop THEN <<>> ELSE backing]
        /\ dN' = [dN EXCEPT ![d] = IF drop THEN 0 ELSE Len(listeners)]
        /\ dI' = [dI EXCEPT ![d] = IF drop THEN 0 ELSE 1]
        /\ dLive' = [dLive EXCEPT ![d] = ~drop]
        /\ snap' = Rec("pass", [snap EXCEPT ![d] = listeners], snap)
        /\ gone' = Rec("pass", [gone EXCEPT ![d] = IF drop THEN {} ELSE removed], gone)
        /\ earlier' = RecP([earlier EXCEPT ![d] =
                             IF drop THEN {}
                             ELSE {e \in Dispatchers \ {d} : dpc[e] = "call"}], earlier)
  /\ rd' = [rd EXCEPT ![d] = 0]
  /\ inv' = RecP([inv EXCEPT ![d] = <<>>], inv)
  /\ mut' = Rec("pass", [mut EXCEPT ![d] = FALSE], mut)
  /\ dropped' = Rec("life", IF raw = Undecodable THEN d ELSE 0, dropped)
  /\ fired' = "none" /\ opened' = NoOpen /\ rmArg' = "-" /\ listenRet' = "-"
  /\ UNCHANGED <<svars, lvars, pc, op, nDisp, obs, nCalls, removed, snd, closeDone, discFor, hbSock,
                 hbPrev, hbLast>>

\* lines 174-178: one iteration of the range loop, or its end
hc_call(d) ==
  /\ dpc[d] = "call"
  /\ IF dI[d] <= dN[d]
     THEN /\ inv' = RecP([inv EXCEPT ![d] = IF Matches(dArr[d][dI[d]], fr[d])
                                       THEN Append(@, dArr[d][dI[d]].callback) ELSE @], inv)
          /\ dI' = [dI EXCEPT ![d] = @ + 1]
          /\ UNCHANGED <<dpc, fr, dArr, dN, dLive, earlier>>
     ELSE /\ dpc' = [dpc EXCEPT ![d] = "top"]
          /\ fr' = [fr EXCEPT ![d] = ""]
          /\ dArr' = [dArr EXCEPT ![d] = <<>>]
          /\ dN' = [dN EXCEPT ![d] = 0]
          /\ dI' = [dI EXCEPT ![d] = 0]
          /\ dLive' = [dLive EXCEPT ![d] = FALSE]
          /\ earlier' = [e \in Dispatchers |-> IF e = d THEN {} ELSE earlier[e] \ {d}]
          /\ UNCHANGED inv
  /\ Quiet
  /\ UNCHANGED <<svars, lvars, pc, op, nDisp, rd, obs, nCalls, snap, gone, mut, got, removed, snd,
                 closeDone, discFor, hbSock, hbPrev, hbLast>>

handleCallbacks(d) ==
  \/ hc_top(d) \/ hc_deadline(d) \/ hc_readErr(d) \/ hc_fail(d) \/ hc_call(d)
  \/ \E raw \in FrameEvents \cup {Undecodable} : hc_read(d, raw)

\* ------------------------------------------------------------ environment
\* the connection of an open socket breaks: reads and writes on it fail
SockDown(s) ==
  /\ sock[s] = "open"
  /\ sock' = [sock EXCEPT ![s] = "down"]
  /\ Quiet
  /\ UNCHANGED <<ws, Connected, nSock, lvars, pc, op, dvars, obs, nCalls, pvars, snd,
                 closeDone, discFor, hbSock, hbPrev, hbLast>>

Next ==
  \/ Listen
  \/ \E encodable \in BOOLEAN : Send(encodable)
  \/ Send_write
  \/ Send_return
  \/ Close
  \/ \E event \in EventNames : On(event)
  \/ \E event \in EventNames : RemoveCallbacksForEvent(event)
  \/ \E t \in Openers : open(t)
  \/ keepAlive
  \/ \E d \in Dispatchers : handleCallbacks(d)
  \/ \E s \in Sockets : SockDown(s)

Spec == Init /\ [][Next]_vars
SpecSend == InitWith("send") /\ [][Next]_vars
SpecDisc == InitWith("disc") /\ [][Next]_vars
SpecHb == InitWith("hb") /\ [][Next]_vars
SpecPass == InitWith("pass") /\ [][Next]_vars
SpecOrder == InitWith("order") /\ [][Next]_vars
SpecRace == InitWith("race") /\ [][Next]_vars

\* Scheduling: a thread or goroutine that can take a step of a method it is
\* in takes one; Read returns within its 10 s deadline; a select with a
\* ready case picks among the ready cases at random, so a sender that is
\* ready again and again is served.  The caller need not call anything, and
\* no connection need break.
Fairness ==
  /\ WF_vars(open("caller") \/ Send_write \/ Send_return)
  /\ WF_vars(open("ka") \/ keepAlive_closeWs \/ keepAlive_tick)
  /\ SF_vars(keepAlive_close)
  /\ \A d \in Dispatchers : SF_vars(keepAlive_reconnect(d))
  /\ \A d \in Dispatchers : WF_vars(handleCallbacks(d))

SpecFair == InitWith("live") /\ [][Next]_vars /\ Fairness

\* =================================================================== claims

\* C1: once keepAlive has handled the close signal of Close(), the channel
\* stays closed: connected never becomes true again, on-connect is not
\* invoked again and keepAlive runs open() no more, unless the caller itself
\* calls Listen() or Send().
C1_CloseIsFinal ==
  closeDone => /\ ~Connected
               /\ fired # "OnConnect"
               /\ pc["ka"] \notin {"open_close", "open_dial", "open_mark", "open_join"}

\* C2: for a frame with event E that decodes and is no reply, the range loop
\* invokes exactly the listeners registered (by On, none removed during the
\* loop) whose event name is E or "*", once per registration, in registration
\* order: at every point of the loop the callbacks invoked so far are the
\* matching ones among the listeners already visited.
RECURSIVE Deliver(_, _)
Deliver(ls, event) ==
  IF ls = <<>> THEN <<>>
  ELSE (IF Head(ls).EventName \in {event, "*"} THEN <<Head(ls).callback>> ELSE <<>>)
       \o Deliver(Tail(ls), event)

C2_DeliversMatching ==
  \A d \in Dispatchers :
    (dpc[d] = "call" /\ ~mut[d]) =>
      /\ dN[d] = Len(snap[d])
      /\ inv[d] = Deliver(SubSeq(snap[d], 1, dI[d] - 1), fr[d])

\* a finished loop over an exact listener and a wildcard listener, both invoked
C2_Witness ==
  \E d \in Dispatchers :
    /\ dpc[d] = "call" /\ dI[d] > dN[d] /\ ~mut[d]
    /\ Len(snap[d]) = 2 /\ inv[d] = <<1, 2>>
    /\ {snap[d][1].EventName, snap[d][2].EventName} = {fr[d], Wildcard}

\* C3: a read failure in handleCallbacks sets connected to false, invokes
\* on-disconnect once and raises the reconnect signal; the signal is taken by
\* keepAlive, which then makes one open() call; when that open() dials
\* successfully connected becomes true again, and when it returns nil
\* on-connect has been invoked and a new handleCallbacks goroutine launched.
C3_ReadFailureReconnects ==
  [][ /\ \A d \in Dispatchers :
           /\ (dpc[d] = "read" /\ dpc'[d] = "fail") => (~Connected' /\ fired' = "none")
           /\ (dpc[d] = "fail" /\ dpc'[d] # "fail") =>
                (fired' = "OnDisconnect" /\ dpc'[d] = "signal")
           /\ (dpc[d] = "signal" /\ dpc'[d] # "signal") =>
                /\ pc["ka"] = "select" /\ pc'["ka"] = "open_close"
                /\ op'["ka"] = "reconnect" /\ dpc'[d] = "top"
      /\ (op["ka"] = "reconnect" /\ pc["ka"] = "open_mark" /\ pc'["ka"] # "open_mark")
           => Connected'
      /\ (opened'.by = "reconnect" /\ opened'.res = "ok")
           => (fired' = "OnConnect" /\ nDisp' = nDisp + 1)
    ]_vars

\* keepAlive's open() after a reconnect signal has just returned nil
C3_Witness ==
  /\ opened = [by |-> "reconnect", res |-> "ok"]
  /\ Connected /\ fired = "OnConnect" /\ nSock = 2
  /\ \E d \in Dispatchers : dpc[d] = "done"

\* C4: whenever open() returns an error, connected is false when it returns,
\* and that call has not invoked on-connect.
C4_OpenErrorLeavesDisconnected ==
  opened.res = "err" => (~Connected /\ fired # "OnConnect")

\* C5 as stated: a Send that found the channel connected calls no open() and
\* writes exactly one application frame; one that found it disconnected calls
\* open(), returns its error without writing an application frame if it fails,
\* and writes join then application frame if it succeeds; a failed
\* application write is returned.
SendLog == [i \in 1..Len(snd.log) |-> snd.log[i].f]

C5_SendAsStated ==
  pc["caller"] = "send_ret" =>
    /\ snd.conn => (~snd.opened /\ SendLog = <<"app">>)
    /\ ~snd.conn =>
         /\ snd.opened
         /\ snd.openRes = "err" => (snd.ret = "openErr" /\ \A i \in 1..Len(SendLog) : SendLog[i] # "app")
         /\ snd.openRes = "ok" => SendLog = <<"join", "app">>
    /\ \A i \in 1..Len(snd.log) :
         (snd.log[i].f = "app" /\ ~snd.log[i].ok) => snd.ret = "writeErr"

\* C5 (amended): the above holds of every Send whose message encodes; a Send
\* whose message json.Marshal rejects returns that error, calls no open() and
\* writes nothing.
C5_Send ==
  pc["caller"] = "send_ret" =>
    IF snd.ret = "marshalErr"
    THEN ~snd.opened /\ snd.log = <<>>
    ELSE /\ snd.conn => (~snd.opened /\ SendLog = <<"app">>)
         /\ ~snd.conn =>
              /\ snd.opened
              /\ snd.openRes = "err" =>
                   (snd.ret = "openErr" /\ \A i \in 1..Len(SendLog) : SendLog[i] # "app")
              /\ snd.openRes = "ok" => SendLog = <<"join", "app">>
         /\ \A i \in 1..Len(snd.log) :
              (snd.log[i].f = "app" /\ ~snd.log[i].ok) => snd.ret = "writeErr"
         /\ snd.ret = "nil" => snd.log[Len(snd.log)] = Write("app", TRUE)

\* a Send on a disconnected channel that reconnected and wrote its frame
C5_Witness ==
  /\ pc["caller"] = "send_ret"
  /\ ~snd.conn /\ snd.openRes = "ok" /\ snd.ret = "nil"
  /\ snd.log = <<Write("join", TRUE), Write("app", TRUE)>>

\* C6: for one failed connection, on-disconnect is invoked once in all,
\* counting the invocations of handleCallbacks (read error on that socket)
\* and of keepAlive (heartbeat write error on that socket, then open() fails).
C6_OncePerFailure == \A s \in Sockets : discFor[s] <= 1

\* C7: when the heartbeat write and the following open() fail on two
\* consecutive timer ticks of keepAlive, the first of them on a channel marked
\* connected, on-disconnect has been invoked once, not twice.
Fires(it) == IF it.disc THEN 1 ELSE 0

C7_HeartbeatDowngradesOnce ==
  (hbPrev.fail /\ hbPrev.conn /\ hbLast.fail) => Fires(hbPrev) + Fires(hbLast) = 1

\* C8: RemoveCallbacksForEvent(E), run while no range loop is in progress,
\* leaves exactly the listeners whose name is not E, in their order; and no
\* frame read afterwards is delivered to a listener removed before it.
KeepOthers(ls, event) == SelectSeq(ls, LAMBDA l : l.EventName # event)

C9_ReplyNeverDelivered ==
  \A d \in Dispatchers : got[d] = phxReply => (dpc[d] # "call" /\ inv[d] = <<>>)

\* a reply frame read while a wildcard and a "phx_reply" listener are registered
C9_Witness ==
  \E d \in Dispatchers :
    /\ got[d] = phxReply
    /\ {snap[d][i].EventName : i \in 1..Len(snap[d])} = {Wildcard, phxReply}

\* C10: callbacks fire in the order the frames were read: while a goroutine
\* still has a matching listener to invoke for its frame, no callback is
\* invoked for a frame read after it.
Pending(d) ==
  dpc[d] = "call" /\ \E i \in dI[d]..dN[d] : dArr[d][i].EventName \in {fr[d], Wildcard}

C10_FrameOrder ==
  \A d \in Dispatchers : \A e \in earlier[d] : inv[d] # <<>> => ~Pending(e)

\* C11: Listen returns an error exactly when its open() call fails, and then
\* no keepAlive goroutine is started; when open() succeeds Listen returns nil
\* with one handleCallbacks goroutine and one keepAlive goroutine launched.
C11_ListenContract ==
  [][ /\ (listenRet' # "-") <=> (opened'.by = "Listen")
      /\ opened'.by = "Listen" =>
           /\ pc["ka"] = "none" /\ pc'["caller"] = "idle"
           /\ (listenRet' = "err") <=> (opened'.res = "err")
           /\ opened'.res = "err" => (pc'["ka"] = "none" /\ nDisp' = nDisp)
           /\ opened'.res = "ok" =>
                (listenRet' = "nil" /\ pc'["ka"] = "select" /\ nDisp' = nDisp + 1)
    ]_vars

\* Listen has just returned nil on a channel a failed Listen left without keepAlive
C11_Witness ==
  /\ listenRet = "nil" /\ opened = [by |-> "Listen", res |-> "ok"]
  /\ pc["ka"] = "select" /\ nDisp = 1 /\ dpc[1] = "top" /\ sock[1] = "closed"

\* C12: no two executions of open() overlap: keepAlive is never inside open()
\* while the caller's thread (Send) is inside open().
InOpen(t) == pc[t] \in {"open_close", "open_dial", "open_mark", "open_join"}

C12_OpenNeverOverlaps == ~(InOpen("caller") /\ InOpen("ka"))

\* C13: between a successful Listen and Close there is one keepAlive and at
\* most one handleCallbacks goroutine that has not exited.
Running(d) == dpc[d] \notin {"none", "done"}

C13_OneDispatchLoop ==
  (pc["ka"] \in {"select"} \cup {"open_close", "open_dial", "open_mark", "open_join"}
   /\ pc["caller"] # "close_send" /\ ~closeDone)
    => Cardinality({d \in Dispatchers : Running(d)}) <= 1

\* C17: a frame that does not decode is dropped silently: the goroutine that
\* read it starts no range loop and goes back to the top of its loop, and the
\* step changes neither connected, the socket handle, any socket, the listener
\* list, nor the position of keepAlive, the caller or another goroutine, and
\* invokes no lifecycle callback.
C17_UndecodableDropped ==
  [][ dropped' # 0 =>
        /\ dpc[dropped'] = "read" /\ dpc'[dropped'] = "top"
        /\ dN'[dropped'] = 0 /\ fr'[dropped'] = ""
        /\ \A e \in Dispatchers \ {dropped'} : dpc'[e] = dpc[e]
        /\ UNCHANGED <<ws, Connected, sock, nSock, listeners, backing, pc, op, nDisp>>
        /\ fired' = "none"
    ]_vars

\* an undecodable frame has just been dropped on a connected channel with a
\* wildcard listener registered
C17_Witness ==
  /\ dropped # 0 /\ Connected /\ Usable(ws)
  /\ \E i \in 1..Len(listeners) : listeners[i].EventName = Wildcard

\* C18: the failure handling of a handleCallbacks goroutine whose Read on
\* socket S failed touches that connection only: it sets connected to false
\* only while c.ws is still S, and the socket it closes is S.
C18_FailureIsLocal ==
  [][ \A d \in Dispatchers :
        /\ (dpc[d] = "read" /\ dpc'[d] = "fail" /\ Connected) => ws = rd[d]
        /\ (dpc[d] = "fail" /\ dpc'[d] = "signal") =>
             \A s \in Sockets : sock'[s] # sock[s] => s = rd[d]
    ]_vars

\* C19: at the end of a range loop, every listener that was registered when
\* the frame was received, matches it and has not been removed has been
\* invoked exactly once, whatever On and RemoveCallbacksForEvent did meanwhile.
Count(seq, x) == Cardinality({i \in 1..Len(seq) : seq[i] = x})

C19_OncePerListener ==
  \A d \in Dispatchers :
    (dpc[d] = "call" /\ dI[d] > dN[d]) =>
      \A i \in 1..Len(snap[d]) :
        (snap[d][i].EventName \in {fr[d], Wildcard} /\ snap[d][i].callback \in Ids(listeners))
          => Count(inv[d], snap[d][i].callback) = 1

\* C14: no dangling sockets: at most one of the sockets dialed for the
\* channel is not closed, whoever called open().
Unclosed == {s \in Sockets : sock[s] \in {"open", "down"}}

C14_NoDanglingSockets == Cardinality(Unclosed) <= 1

\* C15: a listening channel that is disconnected and has not been closed does
\* not stay that way with keepAlive idle: keepAlive calls open() again, or
\* connected becomes true again.
C15_RetriesUntilConnected ==
  (pc["ka"] = "select" /\ ~Connected /\ ~closeDone /\ pc["caller"] # "close_send")
    ~> (Connected \/ InOpen("ka"))

\* C16: a handleCallbacks goroutine that raises the reconnect signal gets
\* past it, whether or not a keepAlive goroutine exists.
C16_SignalDoesNotBlock ==
  \A d \in Dispatchers : (dpc[d] = "signal") ~> (dpc[d] # "signal")

\* C20: a Close() call on a channel that has a keepAlive goroutine returns.
C20_CloseReturns ==
  (pc["caller"] = "close_send" /\ pc["ka"] # "none") ~> (pc["caller"] = "idle")

\* Close() has returned while a handleCallbacks goroutine is waiting to raise
\* the reconnect signal, after a re-open by keepAlive
C20_Witness ==
  /\ pc["caller"] = "idle" /\ pc["ka"] = "close_ws" /\ nSock = 2
  /\ \E d \in Dispatchers : dpc[d] = "signal"
====
